---- MODULE Spec2Model ----
(***************************************************************************)
(* Model of scheduling_grid.py: generate(size, seed, max_attempts,         *)
(* positions) builds an initial grid from the fixed positions, validates   *)
(* it, and then repeatedly tries a randomized row-major fill until an      *)
(* attempt completes or max_attempts attempts have been made.              *)
(*                                                                         *)
(* A grid is a sequence of rows, each a sequence of cells, as the Python   *)
(* list of lists; Python index i is TLA+ index i + 1.  None and the empty  *)
(* list are both the empty sequence, which is exactly what the code's      *)
(* truthiness tests see.                                                   *)
(***************************************************************************)
EXTENDS Integers, Sequences, FiniteSets, TLC

VARIABLES size, seed, max_attempts, seed_internal, positions, grid_initial,
          grid, grid_final, attempts, row_num, col_num, rand, pc, err,
          reported, dead_ends, first

vars == <<size, seed, max_attempts, seed_internal, positions, grid_initial,
          grid, grid_final, attempts, row_num, col_num, rand, pc, err,
          reported, dead_ends, first>>

(* ---- bounds of the model ---- *)
MaxN == 3
MaxAttempts == 2
MaxSeed == 1
(* the size of the grid plus the number of position tokens *)
MaxInput == 4

None == <<>>

(* --size and --max-attempts: the sizes from 1 and the budgets from 0; a     *)
(* size below 1 or a negative budget is no grid and no budget at all         *)
Sizes == 1..MaxN
Budgets == 0..MaxAttempts
(* --seed: absent (None) or an integer *)
Seeds == {None} \cup {<<s>> : s \in 0..MaxSeed}

(* A position token "row,col=value": its three integers, or a token that    *)
(* split('=') / split(',') / int() cannot decompose.  Row and column inputs *)
(* cover 0 (one below the 1-based range) up to n + 1 (one above it); a      *)
(* negative input is indexed as 0 is (it wraps around) or as n + 1 is (it   *)
(* is out of the list).                                                     *)
Malformed == <<>>
Tokens(n) == {<<r, c, v>> : r \in 0..(n + 1), c \in 0..(n + 1), v \in 0..(n + 1)}
                \cup {Malformed}

(* ---- Python list and set helpers ---- *)

(* list indexing: a negative index counts from the end; outside [-n, n) it  *)
(* raises IndexError                                                        *)
IndexOK(i, n) == -n <= i /\ i < n
PyIndex(i, n) == IF i < 0 THEN i + n ELSE i

Cell(g, r, c) == g[r + 1][c + 1]
SetCell(g, r, c, v) == [g EXCEPT ![r + 1][c + 1] = v]

(* set(xs) *)
ValueSet(xs) == {xs[i] : i \in 1..Len(xs)}
(* [v for v in xs if v != 0] *)
NonZero(xs) == {i \in 1..Len(xs) : xs[i] # 0}
(* [row[c] for row in g] *)
Column(g, c) == [i \in 1..Len(g) |-> g[i][c + 1]]

(* [[0 for _ in range(size)] for _ in range(size)] *)
ZeroGrid(n) == [i \in 1..n |-> [j \in 1..n |-> 0]]

(* ---- seed selection ---- *)

(* `if seed:` is false for None and for 0; then random.randint picks one *)
Truthy(s) == s # None /\ s[1] # 0
SeedInternal(s) == IF Truthy(s) THEN {s[1]} ELSE 0..MaxSeed

(* ---- seed validation ---- *)

(* as many non-zero cells as distinct non-zero values:                      *)
(*   len([v for v in xs if v != 0]) equals len(set(xs) - {0})               *)
NoRepeat(xs) == Cardinality(NonZero(xs)) = Cardinality(ValueSet(xs) \ {0})
RowsValidSkipped(g) == TRUE
RowsValid(g) == \A i \in 1..Len(g) : NoRepeat(g[i])
ColsValidAsRows(g) == \A i \in 1..Len(g) : NoRepeat(g[i])
ColsValid(g) == \A c \in 0..(Len(g) - 1) : NoRepeat(Column(g, c))

(* ---- the fill ---- *)

(* set(range(1, size + 1)) - set(row) - {row[col_num] for row in grid} *)
(* the candidates are taken from the grid as it was before the attempt *)
CellCandidatesSnapshot(g, r, c) ==
    ((1..Len(g)) \ ValueSet(grid_initial[r + 1])) \ ValueSet(Column(grid_initial, c))
CellCandidatesShortRange(g, r, c) ==
    ((1..(Len(g) - 1)) \ ValueSet(g[r + 1])) \ ValueSet(Column(g, c))
CellCandidatesRowOnly(g, r, c) == (1..Len(g)) \ ValueSet(g[r + 1])
CellCandidates(g, r, c) ==
    ((1..Len(g)) \ ValueSet(g[r + 1])) \ ValueSet(Column(g, c))

(* list(cell_candidates)[i]: the order of the list is fixed by the values in *)
(* the set; small integers list in ascending order                           *)
CandidateAt(S, i) == CHOOSE v \in S : Cardinality({w \in S : w < v}) = i

(* rand.choice over a list of n elements returns the element at an index in  *)
(* 0..n-1 that is a function of the generator's seed and of the draws made   *)
(* so far.  The values are not known in advance, so a draw is any index,     *)
(* except that a generator with the seed of the first invocation repeats the *)
(* first invocation's draws.                                                 *)
Replays(rnd, n) ==
    IF first = None THEN FALSE
    ELSE /\ first[1].rand.seed = rnd.seed
         /\ Len(rnd.drawn) < Len(first[1].rand.drawn)
         /\ first[1].rand.drawn[Len(rnd.drawn) + 1][1] = n
Choice(rnd, n) ==
    IF Replays(rnd, n) THEN {first[1].rand.drawn[Len(rnd.drawn) + 1][2]}
    ELSE 0..(n - 1)

(* ---- final validation ---- *)

(* set(row) equals set(range(1, size + 1)) for every row, then every column *)
FinalRowsValid(g) == \A i \in 1..Len(g) : ValueSet(g[i]) = 1..Len(g)
FinalColsValidAsRows(g) == \A i \in 1..Len(g) : ValueSet(g[i]) = 1..Len(g)
FinalColsValid(g) == \A c \in 0..(Len(g) - 1) : ValueSet(Column(g, c)) = 1..Len(g)

(* ---- the state at entry, after the seed is chosen and the zero grid built ---- *)

NoRand == [seed |-> -1, drawn |-> <<>>]

Entry(n, s, m) ==
    /\ size = n
    /\ seed = s
    /\ max_attempts = m
    /\ seed_internal \in SeedInternal(s)
    /\ positions = <<>>
    /\ grid_initial = ZeroGrid(n)
    /\ grid = None
    /\ grid_final = None
    /\ attempts = 0
    /\ row_num = 0
    /\ col_num = 0
    /\ rand = NoRand
    /\ pc = "positions"
    /\ err = "none"
    /\ reported = -1
    /\ dead_ends = 0

Init ==
    /\ \E n \in Sizes, s \in Seeds, m \in Budgets : Entry(n, s, m)
    /\ first = None

(* ---- for position in positions: (one iteration) ---- *)

(* the tokens a second invocation reads are those the first one read *)
NextToken(tok) ==
    IF first = None THEN TRUE
    ELSE /\ Len(positions) < Len(first[1].positions)
         /\ tok = first[1].positions[Len(positions) + 1]
NoMoreTokens ==
    IF first = None THEN TRUE ELSE Len(positions) = Len(first[1].positions)

Raise(e) ==
    /\ pc' = "error"
    /\ err' = e

PlacePosition(tok) ==
    /\ pc = "positions"
    /\ size + Len(positions) < MaxInput
    /\ NextToken(tok)
    /\ positions' = Append(positions, tok)
    /\ IF tok = Malformed
       THEN Raise("ValueError: token") /\ UNCHANGED grid_initial
       ELSE LET r == tok[1] - 1
                c == tok[2] - 1
                ival == tok[3]
            IN  IF ~(0 < ival /\ ival <= size)
                THEN Raise("AssertionError: value") /\ UNCHANGED grid_initial
                ELSE IF ~(IndexOK(r, size) /\ IndexOK(c, size))
                THEN Raise("IndexError") /\ UNCHANGED grid_initial
                ELSE /\ grid_initial' =
                            SetCell(grid_initial, PyIndex(r, size), PyIndex(c, size), ival)
                     /\ UNCHANGED <<pc, err>>
    /\ UNCHANGED <<size, seed, max_attempts, seed_internal, grid, grid_final,
                   attempts, row_num, col_num, rand, reported, dead_ends, first>>

EndPositions ==
    /\ pc = "positions"
    /\ NoMoreTokens
    /\ pc' = "validate"
    /\ UNCHANGED <<size, seed, max_attempts, seed_internal, positions, grid_initial,
                   grid, grid_final, attempts, row_num, col_num, rand, err,
                   reported, dead_ends, first>>

(* ---- validate the initial grid, then set up the generation loop ---- *)

ValidateSeed ==
    /\ pc = "validate"
    /\ IF ~RowsValid(grid_initial)
       THEN Raise("AssertionError: row") /\ UNCHANGED rand
       ELSE IF ~ColsValid(grid_initial)
       THEN Raise("AssertionError: column") /\ UNCHANGED rand
       ELSE /\ pc' = "loop"
            /\ rand' = [seed |-> seed_internal, drawn |-> <<>>]
            /\ UNCHANGED err
    /\ UNCHANGED <<size, seed, max_attempts, seed_internal, positions, grid_initial,
                   grid, grid_final, attempts, row_num, col_num, reported,
                   dead_ends, first>>

(* ---- while attempts < max_attempts: ---- *)

LoopConditionInclusive == attempts <= max_attempts
LoopCondition == attempts < max_attempts

BeginAttemptUncounted ==
    /\ pc = "loop"
    /\ LoopCondition
    /\ grid' = grid_initial
    /\ row_num' = 0
    /\ col_num' = 0
    /\ pc' = "fill"
    /\ UNCHANGED <<size, seed, max_attempts, seed_internal, positions, grid_initial,
                   grid_final, attempts, rand, err, reported, dead_ends, first>>
(* the working grid of the attempt before is reused *)
BeginAttemptStale ==
    /\ pc = "loop"
    /\ LoopCondition
    /\ attempts' = attempts + 1
    /\ grid' = IF grid = None THEN grid_initial ELSE grid
    /\ row_num' = 0
    /\ col_num' = 0
    /\ pc' = "fill"
    /\ UNCHANGED <<size, seed, max_attempts, seed_internal, positions, grid_initial,
                   grid_final, rand, err, reported, dead_ends, first>>
BeginAttempt ==
    /\ pc = "loop"
    /\ LoopCondition
    /\ attempts' = attempts + 1
    /\ grid' = grid_initial
    /\ row_num' = 0
    /\ col_num' = 0
    /\ pc' = "fill"
    /\ UNCHANGED <<size, seed, max_attempts, seed_internal, positions, grid_initial,
                   grid_final, rand, err, reported, dead_ends, first>>

LoopExit ==
    /\ pc = "loop"
    /\ ~LoopCondition
    /\ pc' = "after_loop"
    /\ UNCHANGED <<size, seed, max_attempts, seed_internal, positions, grid_initial,
                   grid, grid_final, attempts, row_num, col_num, rand, err,
                   reported, dead_ends, first>>

(* ---- the row-major walk over the working grid ---- *)

NextRow(c) == IF c + 1 = size THEN row_num + 1 ELSE row_num
NextCol(c) == IF c + 1 = size THEN 0 ELSE c + 1

SkipCell ==
    /\ pc = "fill"
    /\ row_num < size
    /\ Cell(grid, row_num, col_num) # 0
    /\ row_num' = NextRow(col_num)
    /\ col_num' = NextCol(col_num)
    /\ UNCHANGED <<size, seed, max_attempts, seed_internal, positions, grid_initial,
                   grid, grid_final, attempts, rand, pc, err, reported,
                   dead_ends, first>>

(* the test for an unfilled cell is missing *)
AssignCellOverwrites ==
    /\ pc = "fill"
    /\ row_num < size
    /\ LET cell_candidates == CellCandidates(grid, row_num, col_num)
           n == Cardinality(cell_candidates)
       IN  /\ n # 0
           /\ \E i \in Choice(rand, n) :
                /\ grid' = SetCell(grid, row_num, col_num, CandidateAt(cell_candidates, i))
                /\ rand' = [rand EXCEPT !.drawn = Append(@, <<n, i>>)]
    /\ row_num' = NextRow(col_num)
    /\ col_num' = NextCol(col_num)
    /\ UNCHANGED <<size, seed, max_attempts, seed_internal, positions, grid_initial,
                   grid_final, attempts, pc, err, reported, dead_ends, first>>
AssignCell ==
    /\ pc = "fill"
    /\ row_num < size
    /\ Cell(grid, row_num, col_num) = 0
    /\ LET cell_candidates == CellCandidates(grid, row_num, col_num)
           n == Cardinality(cell_candidates)
       IN  /\ n # 0
           /\ \E i \in Choice(rand, n) :
                /\ grid' = SetCell(grid, row_num, col_num, CandidateAt(cell_candidates, i))
                /\ rand' = [rand EXCEPT !.drawn = Append(@, <<n, i>>)]
    /\ row_num' = NextRow(col_num)
    /\ col_num' = NextCol(col_num)
    /\ UNCHANGED <<size, seed, max_attempts, seed_internal, positions, grid_initial,
                   grid_final, attempts, pc, err, reported, dead_ends, first>>

(* the retry builds a fresh generator from the seed *)
DeadEndReseeds ==
    /\ pc = "fill"
    /\ row_num < size
    /\ Cell(grid, row_num, col_num) = 0
    /\ CellCandidates(grid, row_num, col_num) = {}
    /\ pc' = "loop"
    /\ dead_ends' = dead_ends + 1
    /\ rand' = [seed |-> seed_internal, drawn |-> <<>>]
    /\ UNCHANGED <<size, seed, max_attempts, seed_internal, positions, grid_initial,
                   grid, grid_final, attempts, row_num, col_num, err,
                   reported, first>>
(* raise ValueError ... except ValueError: continue *)
DeadEnd ==
    /\ pc = "fill"
    /\ row_num < size
    /\ Cell(grid, row_num, col_num) = 0
    /\ CellCandidates(grid, row_num, col_num) = {}
    /\ pc' = "loop"
    /\ dead_ends' = dead_ends + 1
    /\ UNCHANGED <<size, seed, max_attempts, seed_internal, positions, grid_initial,
                   grid, grid_final, attempts, row_num, col_num, rand, err,
                   reported, first>>

(* grid_final = grid; break *)
AttemptSucceeds ==
    /\ pc = "fill"
    /\ row_num = size
    /\ grid_final' = grid
    /\ pc' = "after_loop"
    /\ UNCHANGED <<size, seed, max_attempts, seed_internal, positions, grid_initial,
                   grid, attempts, row_num, col_num, rand, err, reported,
                   dead_ends, first>>

(* ---- if not grid_final: raise ValueError(... {max_attempts} attempts) ---- *)

Exhausted ==
    /\ pc = "after_loop"
    /\ grid_final = None
    /\ Raise("ValueError: no valid grid")
    /\ reported' = max_attempts
    /\ UNCHANGED <<size, seed, max_attempts, seed_internal, positions, grid_initial,
                   grid, grid_final, attempts, row_num, col_num, rand,
                   dead_ends, first>>

(* ---- final validation and the report of the attempt count ---- *)

FinalValidate ==
    /\ pc = "after_loop"
    /\ grid_final # None
    /\ IF ~FinalRowsValid(grid_final)
       THEN Raise("AssertionError: final row") /\ UNCHANGED reported
       ELSE IF ~FinalColsValid(grid_final)
       THEN Raise("AssertionError: final column") /\ UNCHANGED reported
       ELSE /\ pc' = "done"
            /\ reported' = attempts
            /\ UNCHANGED err
    /\ UNCHANGED <<size, seed, max_attempts, seed_internal, positions, grid_initial,
                   grid, grid_final, attempts, row_num, col_num, rand,
                   dead_ends, first>>

Next ==
    \/ \E tok \in Tokens(size) : PlacePosition(tok)
    \/ EndPositions
    \/ ValidateSeed
    \/ BeginAttempt
    \/ LoopExit
    \/ SkipCell
    \/ AssignCell
    \/ DeadEnd
    \/ AttemptSucceeds
    \/ Exhausted
    \/ FinalValidate

Spec == Init /\ [][Next]_vars

Terminated == pc \in {"done", "error"}

(* The program runs to completion without waiting on anything: whenever a    *)
(* step is possible, it is taken.                                            *)
FairSpec == Spec /\ WF_vars(Next)

(* ---- a second invocation with the same size, seed, budget and positions ---- *)

Reinvoke ==
    /\ Terminated
    /\ first = None
    /\ first' = <<[positions |-> positions, rand |-> rand, pc |-> pc, err |-> err,
                   grid_final |-> grid_final, reported |-> reported]>>
    /\ seed_internal' \in SeedInternal(seed)
    /\ positions' = <<>>
    /\ grid_initial' = ZeroGrid(size)
    /\ grid' = None
    /\ grid_final' = None
    /\ attempts' = 0
    /\ row_num' = 0
    /\ col_num' = 0
    /\ rand' = NoRand
    /\ pc' = "positions"
    /\ err' = "none"
    /\ reported' = -1
    /\ dead_ends' = 0
    /\ UNCHANGED <<size, seed, max_attempts>>

NextTwice == Next \/ Reinvoke

(* two invocations in a row are explored below the largest size *)
InitTwice == Init /\ size < MaxN

SpecTwice == InitTwice /\ [][NextTwice]_vars

(* ---- the final validation alone, on any grid handed to it, run twice ---- *)

(* any n x n grid of values from 0 (unfilled) to n + 1 (out of range) *)
Grids(n) == [1..n -> [1..n -> 0..(n + 1)]]

InitValidator ==
    /\ size \in Sizes
    /\ size < MaxN
    /\ grid_final \in Grids(size)
    /\ grid = grid_final
    /\ grid_initial = ZeroGrid(size)
    /\ seed = None
    /\ seed_internal = 0
    /\ max_attempts = 1
    /\ attempts = 1
    /\ positions = <<>>
    /\ row_num = size
    /\ col_num = 0
    /\ rand = [seed |-> 0, drawn |-> <<>>]
    /\ pc = "after_loop"
    /\ err = "none"
    /\ reported = -1
    /\ dead_ends = 0
    /\ first = None

Revalidate ==
    /\ Terminated
    /\ first = None
    /\ first' = <<[positions |-> positions, rand |-> rand, pc |-> pc, err |-> err,
                   grid_final |-> grid_final, reported |-> reported]>>
    /\ pc' = "after_loop"
    /\ err' = "none"
    /\ reported' = -1
    /\ UNCHANGED <<size, seed, max_attempts, seed_internal, positions, grid_initial,
                   grid, grid_final, attempts, row_num, col_num, rand, dead_ends>>

NextValidator == FinalValidate \/ Revalidate

SpecValidator == InitValidator /\ [][NextValidator]_vars

(* ======================= properties ======================= *)

(* xs lists each of 1..n exactly once *)
Permutation(xs, n) ==
    /\ Len(xs) = n
    /\ \A v \in 1..n : Cardinality({i \in 1..n : xs[i] = v}) = 1
LatinSquare(g, n) ==
    /\ Len(g) = n
    /\ \A i \in 1..n : Permutation(g[i], n)
    /\ \A j \in 1..n : Permutation([i \in 1..n |-> g[i][j]], n)

(* C1: whenever generation ends in success, the grid it returns has no zero  *)
(* and every row and every column of it is a permutation of 1..N.            *)
C1_SuccessIsLatin == grid_final # None => LatinSquare(grid_final, size)

C1_Witness ==
    /\ pc = "done"
    /\ size = 3
    /\ positions # <<>>
    /\ Len(rand.drawn) > 0

(* C2: on success every input triple (row, col, value) holds in the final    *)
(* grid: the cell that grid[row-1][col-1] names has the value.               *)
C2_FixedPositionsHold ==
    grid_final # None =>
        \A i \in 1..Len(positions) :
            Cell(grid_final, PyIndex(positions[i][1] - 1, size),
                             PyIndex(positions[i][2] - 1, size)) = positions[i][3]

(* the second half of C2, which the code keeps: the fill leaves every cell   *)
(* that is non-zero in the initial grid as it is                             *)
FillKeepsInitial ==
    grid # None =>
        \A i \in 1..size, j \in 1..size :
            grid_initial[i][j] # 0 => grid[i][j] = grid_initial[i][j]

(* C3: during generation, after each single cell assignment, no row and no   *)
(* column of the working grid holds the same non-zero value twice.           *)
NoDuplicate(g) ==
    \A i \in 1..Len(g), j \in 1..Len(g), k \in 1..Len(g) :
        /\ (j # k /\ g[i][j] # 0) => g[i][j] # g[i][k]
        /\ (j # k /\ g[j][i] # 0) => g[j][i] # g[k][i]
C3_NoDuplicateDuringFill == grid # None => NoDuplicate(grid)

C3_Witness ==
    /\ pc = "fill"
    /\ attempts = 2
    /\ Len(rand.drawn) > 6
    /\ row_num = 1
(* C4: the generation loop terminates; it never makes more than M attempts; *)
(* a dead end is followed by another attempt and is never an error while     *)
(* attempts remain; exhaustion reports the number of attempts made.          *)
C4_Bounded ==
    /\ attempts <= max_attempts
    /\ err = "ValueError: no valid grid" =>
            (reported = attempts /\ attempts = max_attempts /\ grid_final = None)
C4_Retries ==
    /\ pc = "fill" => (pc' \in {"fill", "loop", "after_loop"} /\ err' = "none")
    /\ (pc = "fill" /\ pc' = "after_loop") => grid_final' # None
    /\ (pc = "loop" /\ attempts < max_attempts) =>
            (pc' = "fill" /\ attempts' = attempts + 1)
    /\ (pc = "loop" /\ pc' = "after_loop") => attempts = max_attempts
C4_Terminates == []C4_Bounded /\ [][C4_Retries]_vars /\ <>Terminated

C4_Witness ==
    /\ err = "ValueError: no valid grid"
    /\ reported = 2
    /\ dead_ends = 2
    /\ Len(rand.drawn) > 0

(* C5: the attempt counter is 1 during the first try and grows by one per    *)
(* dead end; the count reported on success is the number of dead ends before *)
(* the successful attempt plus one, and lies in 1..M.                        *)
C5_AttemptCount ==
    /\ pc = "loop" => attempts = dead_ends
    /\ pc = "fill" => attempts = dead_ends + 1
    /\ pc = "done" => (reported = dead_ends + 1 /\ reported \in 1..max_attempts)

C5_Witness ==
    /\ pc = "done"
    /\ reported = 2
    /\ dead_ends = 1

(* C6: an initial grid with a repeated non-zero value in a row or a column   *)
(* is rejected by seed validation before any attempt: the attempt counter is *)
(* 0, no generator exists and nothing was drawn.                             *)
SeedErrors ==
    {"ValueError: token", "AssertionError: value", "IndexError",
     "AssertionError: row", "AssertionError: column"}
C6_InconsistentSeedRejected ==
    (pc \notin {"positions", "validate"} /\ ~NoDuplicate(grid_initial)) =>
        /\ pc = "error"
        /\ err \in SeedErrors
        /\ attempts = 0
        /\ rand = NoRand
        /\ grid = None

C6_Witness ==
    /\ pc = "error"
    /\ err = "AssertionError: column"
    /\ size = 2
    /\ Len(positions) = 2

(* C7: a triple whose row, column or value is outside 1..N makes seed        *)
(* validation fail at once; it is never placed.                              *)
OutOfRange(tok) ==
    /\ tok # Malformed
    /\ ~(tok[1] \in 1..size /\ tok[2] \in 1..size /\ tok[3] \in 1..size)
C7_OutOfRangeRejected ==
    \A i \in 1..Len(positions) :
        OutOfRange(positions[i]) => (pc = "error" /\ i = Len(positions))

(* C8: two input positions that target the same cell with different values   *)
(* make the construction of the initial grid fail.                           *)
Conflict(s, t) ==
    /\ s # Malformed /\ t # Malformed
    /\ ~OutOfRange(s) /\ ~OutOfRange(t)
    /\ s[1] = t[1] /\ s[2] = t[2] /\ s[3] # t[3]
C8_ConflictRejected ==
    (\E i, j \in 1..Len(positions) : i < j /\ Conflict(positions[i], positions[j]))
        => pc = "error"

RECURSIVE CanComplete(_, _)
CanComplete(g, k) ==
    IF k = Len(g) * Len(g) THEN TRUE
    ELSE LET r == k \div Len(g)
             c == k % Len(g)
         IN  IF Cell(g, r, c) # 0 THEN CanComplete(g, k + 1)
             ELSE \E v \in CellCandidates(g, r, c) :
                    CanComplete(SetCell(g, r, c, v), k + 1)

AttemptStart == pc = "fill" /\ row_num = 0 /\ col_num = 0
C10_Completable ==
    /\ (AttemptStart /\ positions = <<>>) => CanComplete(grid, 0)
    /\ (pc = "done" /\ positions = <<>>) => LatinSquare(grid_final, size)
C10_EmptyGridSucceeds ==
    /\ []C10_Completable
    /\ (pc = "validate" /\ positions = <<>>)
            ~> (pc = "done" \/ (pc = "error" /\ dead_ends = max_attempts))

C10_Witness ==
    /\ pc = "done"
    /\ positions = <<>>
    /\ size = 3
    /\ dead_ends = 1

(* C11: for N = 1 and a budget of at least one attempt, generation succeeds  *)
(* on the first attempt with the grid [[1]] whatever the seed: no dead end   *)
(* is reachable and the reported attempt count is 1.                         *)
SizeOneRun ==
    /\ size = 1
    /\ max_attempts >= 1
    /\ pc \notin {"positions", "validate"}
    /\ err \notin SeedErrors
C11_NoDeadEnd ==
    SizeOneRun =>
        /\ dead_ends = 0
        /\ err = "none"
        /\ attempts <= 1
        /\ pc = "done" => (grid_final = <<<<1>>>> /\ reported = 1)
C11_SizeOneFirstAttempt ==
    /\ []C11_NoDeadEnd
    /\ (pc = "loop" /\ size = 1 /\ max_attempts >= 1) ~> (pc = "done")

C11_Witness ==
    /\ pc = "done"
    /\ size = 1
    /\ seed = <<0>>
    /\ positions = <<>>
    /\ Len(rand.drawn) = 1

(* C12: the final validation accepts an N x N grid exactly when every row    *)
(* and every column holds each of 1..N (no zero, no duplicate, nothing out   *)
(* of range); it leaves the grid as it was; a second run on the same grid    *)
(* ends as the first did.                                                    *)
C12_ValidatorExact ==
    /\ grid_final = grid
    /\ Terminated =>
        /\ (pc = "done") <=> LatinSquare(grid_final, size)
        /\ first # None =>
            (pc = first[1].pc /\ err = first[1].err /\ grid_final = first[1].grid_final)

C12_Witness ==
    /\ first # None
    /\ pc = "done"
    /\ size = 2

C12_WitnessRejected ==
    /\ first # None
    /\ err = "AssertionError: final column"

(* C13: once generation begins the initial grid never changes, and every     *)
(* attempt, the first and each one after a dead end, starts from a working   *)
(* grid equal to it.                                                         *)
C13_StartsFromInitial == AttemptStart => grid = grid_initial
C13_InitialKept == pc # "positions" => grid_initial' = grid_initial
C13_InitialGridImmutable == []C13_StartsFromInitial /\ [][C13_InitialKept]_vars

C13_Witness ==
    /\ AttemptStart
    /\ attempts = 2
    /\ Len(rand.drawn) > 0
    /\ positions # <<>>

(* C14: the generator is seeded once, with seed_internal, and its stream is  *)
(* consumed in order across all attempts: a dead end and the start of a new  *)
(* attempt leave it as it is, every assignment uses exactly the next value,  *)
(* and the number of values consumed never decreases.                        *)
C14_SeededOnce == rand # NoRand => rand.seed = seed_internal
C14_Sequential ==
    /\ rand # NoRand =>
        /\ rand'.seed = rand.seed
        /\ \/ rand'.drawn = rand.drawn
           \/ /\ Len(rand'.drawn) = Len(rand.drawn) + 1
              /\ SubSeq(rand'.drawn, 1, Len(rand.drawn)) = rand.drawn
    /\ (pc = "loop" \/ (pc = "fill" /\ pc' = "loop")) => rand' = rand
    /\ (pc = "fill" /\ pc' = "fill" /\ grid' # grid) =>
        /\ Len(rand'.drawn) = Len(rand.drawn) + 1
        /\ Cell(grid', row_num, col_num) =
                CandidateAt(CellCandidates(grid, row_num, col_num),
                            rand'.drawn[Len(rand.drawn) + 1][2])
Legal(g, r, c) ==
    {v \in 1..size : \A j \in 1..size : g[r + 1][j] # v /\ g[j][c + 1] # v}
CursorIndex == row_num * size + col_num
C15_VisitedAreFilled ==
    pc = "fill" =>
        /\ row_num <= size /\ col_num < size
        /\ \A i \in 0..(size - 1), j \in 0..(size - 1) :
                i * size + j < CursorIndex => Cell(grid, i, j) # 0
C15_Visit ==
    pc = "fill" =>
        /\ pc' = "fill" => row_num' * size + col_num' = CursorIndex + 1
        /\ grid' # grid =>
            /\ Cell(grid, row_num, col_num) = 0
            /\ Cell(grid', row_num, col_num) \in Legal(grid, row_num, col_num)
            /\ \A i \in 0..(size - 1), j \in 0..(size - 1) :
                    <<i, j>> # <<row_num, col_num>> => Cell(grid', i, j) = Cell(grid, i, j)
        /\ (pc' = "loop") <=>
                /\ row_num < size
                /\ Cell(grid, row_num, col_num) = 0
                /\ Legal(grid, row_num, col_num) = {}
C15_RowMajorLegalFill == []C15_VisitedAreFilled /\ [][C15_Visit]_vars

C15_Witness ==
    /\ pc = "loop"
    /\ dead_ends = 1
    /\ size = 3
    /\ row_num = 1
    /\ col_num = 2
    /\ Len(rand.drawn) = 5

(* C16: the final validation never fails on a grid the generator reports as  *)
(* a success: a grid of an attempt that completed passes the row and the     *)
(* column checks, and the failure of the final validation is unreachable.    *)
FinalErrors == {"AssertionError: final row", "AssertionError: final column"}
C16_FinalValidationPasses ==
    /\ err \notin FinalErrors
    /\ grid_final # None => (FinalRowsValid(grid_final) /\ FinalColsValid(grid_final))

C16_Witness ==
    /\ pc = "done"
    /\ size = 2
    /\ Len(positions) = 2
    /\ Len(rand.drawn) = 2

(* C17: if an attempt meets its dead end before any random value is          *)
(* consumed, every attempt meets a dead end at that same cell, the first     *)
(* zero cell of the initial grid, none consumes a random value, and the      *)
(* invocation fails by exhaustion after exactly M attempts.                  *)
FirstZero(g) ==
    CHOOSE k \in 0..(size * size - 1) :
        /\ Cell(g, k \div size, k % size) = 0
        /\ \A m \in 0..(k - 1) : Cell(g, m \div size, m % size) # 0
DryDeadEnd == dead_ends >= 1 /\ Len(rand.drawn) = 0
C17_AllAttemptsAlike ==
    /\ (pc = "loop" /\ dead_ends >= 1 /\ grid = grid_initial) => DryDeadEnd
    /\ DryDeadEnd =>
        /\ grid_final = None
        /\ pc # "done"
        /\ pc = "loop" =>
            /\ grid = grid_initial
            /\ CursorIndex = FirstZero(grid_initial)
            /\ Legal(grid_initial, row_num, col_num) = {}
        /\ Terminated =>
            /\ err = "ValueError: no valid grid"
            /\ attempts = max_attempts
            /\ dead_ends = max_attempts
            /\ reported = max_attempts
C17_StaysDry == DryDeadEnd => Len(rand'.drawn) = 0
C17_DryDeadEndExhausts ==
    /\ []C17_AllAttemptsAlike
    /\ [][C17_StaysDry]_vars
    /\ DryDeadEnd ~> (pc = "error" /\ dead_ends = max_attempts)

C17_Witness ==
    /\ pc = "error"
    /\ dead_ends = 2
    /\ Len(rand.drawn) = 0
    /\ size = 2
    /\ CursorIndex = 1

(* C18: within an attempt a non-zero cell is never changed, an assignment    *)
(* turns exactly one zero cell into a value of 1..N, so the number of zero   *)
(* cells goes down by one with each assignment, and the attempt ends after   *)
(* at most N * N cell visits.                                                *)
Zeros(g) == Cardinality({ij \in (1..size) \X (1..size) : g[ij[1]][ij[2]] = 0})
C18_VisitsBounded == pc = "fill" => CursorIndex <= size * size
C18_Progress ==
    (pc = "fill" /\ pc' = "fill") =>
        /\ row_num' * size + col_num' = CursorIndex + 1
        /\ \A i \in 1..size, j \in 1..size :
            /\ grid[i][j] # 0 => grid'[i][j] = grid[i][j]
            /\ grid'[i][j] # grid[i][j] => grid'[i][j] \in 1..size
        /\ grid' # grid => Zeros(grid') = Zeros(grid) - 1
C18_AttemptEnds ==
    /\ []C18_VisitsBounded
    /\ [][C18_Progress]_vars
    /\ (pc = "fill") ~> (pc # "fill")

C18_Witness ==
    /\ pc = "fill"
    /\ size = 3
    /\ CursorIndex = 9
    /\ attempts = 2
    /\ Zeros(grid_initial) = 8

====
